---- MODULE Spec2Model ----
(***************************************************************************)
(* Model of projects/control_board_current_characterization/plot.py:       *)
(* the oscilloscope capture pipeline (read_tek_csv, offset, clipping,      *)
(* smooth_data, current conversion) and the script's file handling         *)
(* (module-level calls, main, generate_all_plots).                         *)
(*                                                                         *)
(* Numbers: a voltage is an integer number of millivolts, a current an     *)
(* integer number of milliamperes; a smoothed sample is an exact rational  *)
(* [num, den].  Text (a CSV line, a file name, typed input) is a sequence  *)
(* of one-character strings.                                               *)
(***************************************************************************)
EXTENDS Integers, Sequences, FiniteSets, TLC

VARIABLES
    \* smooth_data(data, window_size)
    data, window_size, smoothed, smooth_pc,
    \* read_tek_csv(filename): the file's lines, the loop position, the lists
    lines, line_no, time_data, voltage_data, csv_pc,
    \* plot_voltage_and_current: its arguments, its locals, its position
    filename, sensitivity_mv_per_a, time_range, output_filename,
    voltage, voltage_offset, offset_corrected, voltage_smooth,
    current, current_smooth, plot_pc,
    \* a run of the script: the command line, the files, the position, and
    \* what the run has printed, tried to read and plotted
    argv1, cwd_files, dir_exists, dir_files,
    script_pc, call_no, csv_files, loop_i, typed, main_filename,
    printed, attempts, plotted, exception

smoothVars == <<data, window_size, smoothed, smooth_pc>>
csvVars == <<lines, line_no, time_data, voltage_data, csv_pc>>
plotArgs == <<filename, sensitivity_mv_per_a, time_range, output_filename>>
plotVars == <<plotArgs, voltage, voltage_offset, offset_corrected, voltage_smooth,
              current, current_smooth, plot_pc>>
scriptEnv == <<argv1, cwd_files, dir_exists, dir_files>>
scriptVars == <<scriptEnv, script_pc, call_no, csv_files, loop_i, typed,
                main_filename, printed, attempts, plotted, exception>>
vars == <<smoothVars, csvVars, plotVars, scriptVars>>

-----------------------------------------------------------------------------
(* Bounds *)
MaxLen == 12
MaxWindow == 5
MaxLines == 2
MaxSamples == 2

(* Program constants (voltages in millivolts) *)
DefaultWindow == 11
VOLTAGE_OFFSET == 1670
Tek12OffsetDelta == 80
ClipThreshold == -100
DefaultSensitivity == 200
MilliPerUnit == 1000

SampleValues == {1, 4}
Windows == (1..MaxWindow) \cup {DefaultWindow}

-----------------------------------------------------------------------------
(* The parts of the state a specification does not exercise stay at rest *)
SmoothIdle ==
    /\ data = <<>>
    /\ window_size = DefaultWindow
    /\ smoothed = <<>>
    /\ smooth_pc = "idle"

CsvIdle ==
    /\ lines = <<>>
    /\ line_no = 1
    /\ time_data = <<>>
    /\ voltage_data = <<>>
    /\ csv_pc = "idle"

\* None, for an optional argument that was not given
None == <<>>
\* no text typed yet, no file chosen yet
NotYet == <<"(nothing typed)">>
NoPath == [dir |-> "none", name |-> <<>>]

PlotIdle ==
    /\ filename = <<>>
    /\ sensitivity_mv_per_a = DefaultSensitivity
    /\ time_range = None
    /\ output_filename = None
    /\ voltage = <<>>
    /\ voltage_offset = 0
    /\ offset_corrected = <<>>
    /\ voltage_smooth = <<>>
    /\ current = <<>>
    /\ current_smooth = <<>>
    /\ plot_pc = "idle"

ScriptIdle ==
    /\ argv1 = None
    /\ cwd_files = <<>>
    /\ dir_exists = FALSE
    /\ dir_files = <<>>
    /\ script_pc = "idle"
    /\ call_no = 1
    /\ csv_files = <<>>
    /\ loop_i = 1
    /\ typed = NotYet
    /\ main_filename = NoPath
    /\ printed = <<>>
    /\ attempts = <<>>
    /\ plotted = <<>>
    /\ exception = "none"

-----------------------------------------------------------------------------
(* Generic helpers *)
\* an exact rational num/den
Rat(n, d) == [num |-> n, den |-> d]

Min2(a, b) == IF a < b THEN a ELSE b
Max2(a, b) == IF a > b THEN a ELSE b

SeqsUpTo(S, n) == UNION {[1..k -> S] : k \in 0..n}

RECURSIVE SumOver(_, _, _)
\* sum of f[k] for k in lo..hi
SumOver(f, lo, hi) == IF lo > hi THEN 0 ELSE f[lo] + SumOver(f, lo + 1, hi)

\* Python's s[start:stop] (step 1): a negative bound counts from the end,
\* then both are clamped to 0..len(s).  Indices are 0-based as in Python.
PyIndex(i, n) == IF i < 0 THEN Max2(i + n, 0) ELSE Min2(i, n)
PySlice(s, start, stop) ==
    LET n  == Len(s)
        lo == PyIndex(start, n)
        hi == PyIndex(stop, n)
    IN  IF hi <= lo THEN <<>> ELSE [k \in 1..(hi - lo) |-> s[lo + k]]

-----------------------------------------------------------------------------
(* read_tek_csv *)

Whitespace == {" ", "\t", "\n", "\r"}
DigitVal == ("0" :> 0) @@ ("1" :> 1) @@ ("2" :> 2) @@ ("3" :> 3) @@ ("4" :> 4)
            @@ ("5" :> 5) @@ ("6" :> 6) @@ ("7" :> 7) @@ ("8" :> 8) @@ ("9" :> 9)
IsDigit(c) == c \in DOMAIN DigitVal

RECURSIVE LStrip(_)
LStrip(s) == IF s # <<>> /\ Head(s) \in Whitespace THEN LStrip(Tail(s)) ELSE s
RECURSIVE RStrip(_)
RStrip(s) == IF s # <<>> /\ s[Len(s)] \in Whitespace
             THEN RStrip(SubSeq(s, 1, Len(s) - 1)) ELSE s
\* str.strip()
Strip(s) == RStrip(LStrip(s))

\* position of the first occurrence of character c in s, 0 when absent
RECURSIVE FindFrom(_, _, _)
FindFrom(s, c, k) == IF k > Len(s) THEN 0
                     ELSE IF s[k] = c THEN k ELSE FindFrom(s, c, k + 1)
Find(s, c) == FindFrom(s, c, 1)

RECURSIVE Split(_, _)
\* str.split(sep): always at least one field; an empty string gives ['']
Split(s, sep) ==
    LET k == Find(s, sep)
    IN  IF k = 0 THEN <<s>>
        ELSE <<SubSeq(s, 1, k - 1)>> \o Split(SubSeq(s, k + 1, Len(s)), sep)

AllDigits(s) == \A k \in 1..Len(s) : IsDigit(s[k])

RECURSIVE DigitsValue(_)
DigitsValue(s) == IF s = <<>> THEN 0
                  ELSE 10 * DigitsValue(SubSeq(s, 1, Len(s) - 1)) + DigitVal[s[Len(s)]]

RECURSIVE Pow10(_)
Pow10(n) == IF n = 0 THEN 1 ELSE 10 * Pow10(n - 1)

\* float(text) on decimal literals: surrounding whitespace is ignored, then
\* an optional sign, digits with at most one point and at least one digit.
\* Anything else raises ValueError (ok = FALSE).  The value is num/den.
ParseFloat(text) ==
    LET s      == Strip(text)
        signed == s # <<>> /\ Head(s) \in {"-", "+"}
        neg    == s # <<>> /\ Head(s) = "-"
        body   == IF signed THEN Tail(s) ELSE s
        dot    == Find(body, ".")
        whole  == IF dot = 0 THEN body ELSE SubSeq(body, 1, dot - 1)
        frac   == IF dot = 0 THEN <<>> ELSE SubSeq(body, dot + 1, Len(body))
        mag    == DigitsValue(whole) * Pow10(Len(frac)) + DigitsValue(frac)
    IN  IF AllDigits(whole) /\ AllDigits(frac) /\ Len(whole) + Len(frac) >= 1
        THEN [ok |-> TRUE, num |-> IF neg THEN -mag ELSE mag, den |-> Pow10(Len(frac))]
        ELSE [ok |-> FALSE, num |-> 0, den |-> 1]

NoRow == [time |-> <<>>, voltage |-> <<>>, raised |-> "none"]

\* lines 71-74, the body of the try: the two conversions, then the two
\* appends; a conversion that fails raises ValueError and nothing after it
\* in the body runs.
RowTry(parts) ==
    LET time_val == ParseFloat(parts[4])
    IN  IF ~time_val.ok THEN [NoRow EXCEPT !.raised = "ValueError"]
        ELSE LET voltage_val == ParseFloat(parts[5])
             IN  IF ~voltage_val.ok THEN [NoRow EXCEPT !.raised = "ValueError"]
                 ELSE [time    |-> <<Rat(time_val.num, time_val.den)>>,
                       voltage |-> <<Rat(voltage_val.num, voltage_val.den)>>,
                       raised  |-> "none"]

\* line 75: the exceptions the loop catches
CaughtInLoop == {"ValueError", "IndexError"}

\* RowAppend with the time appended before the voltage is converted
RowAppend_TimeFirst(line) ==
    LET parts == Split(Strip(line), ",")
    IN  IF Len(parts) >= 5
        THEN LET time_val == ParseFloat(parts[4])
             IN  IF ~time_val.ok THEN NoRow
                 ELSE [RowTry(parts) EXCEPT
                          !.time = <<Rat(time_val.num, time_val.den)>>,
                          !.raised = "none"]
        ELSE NoRow

\* lines 67-77, the body of the loop over the lines: what one line appends
\* to time_data and to voltage_data, and the exception that escapes, if any.
RowAppend(line) ==
    LET parts == Split(Strip(line), ",")
    IN  IF Len(parts) >= 5
        THEN IF RowTry(parts).raised \in CaughtInLoop THEN NoRow ELSE RowTry(parts)
        ELSE NoRow

\* Lines of a capture file: rows with the data in columns 4 and 5 (with and
\* without the instrument's trailing comma) and rows with too few columns.
FieldTexts == { <<>>, <<"x">>, <<"2">>, <<"-", "1", ".", "5">>, <<" ", "7">> }
ShortLines == { <<>>, <<"\n">>, <<"x", ",", "2", "\n">>,
                <<"x", ",", ",", ",", "2", "\n">> }
DataLines == { <<"x", ",", ",", ",">> \o a \o <<",">> \o b \o <<"\n">> :
                  a \in FieldTexts, b \in FieldTexts }
TrailingCommaLines == { <<"x", ",", ",", ",", "2", ",">> \o b \o <<",", "\n">> :
                           b \in FieldTexts }
LineSet == ShortLines \cup DataLines \cup TrailingCommaLines

InitCsv ==
    /\ SmoothIdle
    /\ PlotIdle
    /\ ScriptIdle
    /\ lines \in SeqsUpTo(LineSet, MaxLines)
    /\ line_no = 1
    /\ time_data = <<>>
    /\ voltage_data = <<>>
    /\ csv_pc = "loop"

ProcessLine ==
    /\ csv_pc = "loop"
    /\ line_no <= Len(lines)
    /\ time_data' = time_data \o RowAppend(lines[line_no]).time
    /\ voltage_data' = voltage_data \o RowAppend(lines[line_no]).voltage
    /\ IF RowAppend(lines[line_no]).raised = "none"
       THEN line_no' = line_no + 1 /\ UNCHANGED csv_pc
       ELSE csv_pc' = "raised" /\ UNCHANGED line_no
    /\ UNCHANGED <<lines, smoothVars, plotVars, scriptVars>>

ReturnArrays ==
    /\ csv_pc = "loop"
    /\ line_no > Len(lines)
    /\ csv_pc' = "returned"
    /\ UNCHANGED <<lines, line_no, time_data, voltage_data, smoothVars, plotVars, scriptVars>>

NextCsv == ProcessLine \/ ReturnArrays

SpecCsv == InitCsv /\ [][NextCsv]_vars

-----------------------------------------------------------------------------
(* Claims about read_tek_csv (checked under SpecCsv) *)

Fields(line) == Split(Strip(line), ",")
TimeParses(line) == Len(Fields(line)) >= 5 /\ ParseFloat(Fields(line)[4]).ok
VoltageParses(line) == Len(Fields(line)) >= 5 /\ ParseFloat(Fields(line)[5]).ok
KeptLine(line) == TimeParses(line) /\ VoltageParses(line)
ValueOf(text) == Rat(ParseFloat(text).num, ParseFloat(text).den)

RECURSIVE KeptColumn(_, _)
\* column col (4 or 5) of the kept lines of ls, in file order
KeptColumn(ls, col) ==
    IF ls = <<>> THEN <<>>
    ELSE (IF KeptLine(Head(ls)) THEN <<ValueOf(Fields(Head(ls))[col])>> ELSE <<>>)
         \o KeptColumn(Tail(ls), col)

\* C4: no line makes read_tek_csv fail; a line with fewer than 5
\* comma-separated fields, or whose 4th or 5th field is not a number, adds
\* nothing; the returned time and voltage lists
\* are the 4th and 5th fields of the other lines in file order, and the two
\* lists have the same length at every point of the loop.
C4_MalformedRowsSkipped ==
    /\ csv_pc # "raised"
    /\ Len(time_data) = Len(voltage_data)
    /\ csv_pc \in {"loop", "returned"} =>
          /\ time_data = KeptColumn(SubSeq(lines, 1, line_no - 1), 4)
          /\ voltage_data = KeptColumn(SubSeq(lines, 1, line_no - 1), 5)
    /\ csv_pc = "returned" => line_no = Len(lines) + 1

\* A file with a kept line and with a line whose time is a number and whose
\* voltage is not has been read to the end.
C4_Witness ==
    /\ csv_pc = "returned"
    /\ Len(time_data) = 1
    /\ \E k \in 1..Len(lines) : TimeParses(lines[k]) /\ ~VoltageParses(lines[k])
    /\ \E k \in 1..Len(lines) : KeptLine(lines[k])

-----------------------------------------------------------------------------
(* smooth_data *)

\* np.pad(a, pad_width, mode='edge'): pad_width copies of the first element
\* in front and of the last element behind.
PadEdge(a, pad_width) ==
    IF Len(a) = 0 THEN a
    ELSE [k \in 1..(Len(a) + 2 * pad_width) |->
            IF k <= pad_width THEN a[1]
            ELSE IF k > pad_width + Len(a) THEN a[Len(a)]
            ELSE a[k - pad_width]]

\* np.convolve(a, v, mode='full') with every weight of v equal: element t
\* (0-based) is the sum of a[m]*v[t-m] over the m for which both indices
\* exist; outside them the product is absent (the implicit zero padding).
\* The common weight 1/w is carried as the denominator.
ConvolveFullOnes(a, w) ==
    [t \in 1..(Len(a) + w - 1) |->
        SumOver(a, Max2(1, t - w + 1), Min2(Len(a), t))]

\* mode='same': the max(M, N) elements of the full result starting at
\* offset (min(M, N) - 1) // 2.
ConvolveSameOnes(a, w) ==
    LET full   == ConvolveFullOnes(a, w)
        longer == Max2(Len(a), w)
        offset == (Min2(Len(a), w) - 1) \div 2
    IN  [k \in 1..longer |-> full[offset + k]]

smooth_data(d, w) ==
    IF Len(d) < w THEN [k \in 1..Len(d) |-> Rat(d[k], 1)]
    ELSE LET pad_width   == w \div 2
             padded_data == PadEdge(d, pad_width)
             sums        == ConvolveSameOnes(padded_data, w)
             sliced      == PySlice(sums, pad_width, -pad_width)
         IN  [k \in 1..Len(sliced) |-> Rat(sliced[k], w)]

InitSmooth ==
    /\ CsvIdle
    /\ PlotIdle
    /\ ScriptIdle
    /\ data \in SeqsUpTo(SampleValues, MaxLen)
    /\ window_size \in Windows
    /\ smoothed = <<>>
    /\ smooth_pc = "call"

SmoothData ==
    /\ smooth_pc = "call"
    /\ smoothed' = smooth_data(data, window_size)
    /\ smooth_pc' = "returned"
    /\ UNCHANGED <<data, window_size, csvVars, plotVars, scriptVars>>

NextSmooth == SmoothData

SpecSmooth == InitSmooth /\ [][NextSmooth]_vars

-----------------------------------------------------------------------------
(* plot_voltage_and_current: offset, clipping, smoothing, current *)

\* position of the last occurrence of character c in s, 0 when absent
RECURSIVE RFindFrom(_, _, _)
RFindFrom(s, c, k) == IF k < 1 THEN 0
                      ELSE IF s[k] = c THEN k ELSE RFindFrom(s, c, k - 1)
RFind(s, c) == RFindFrom(s, c, Len(s))

\* os.path.basename: what follows the last "/"
BaseName(path) == SubSeq(path, RFind(path, "/") + 1, Len(path))

\* os.path.splitext(path)[0]: the path up to its last ".", unless that dot
\* lies in a directory part or only dots precede it in the file name.
SplitExtRoot(path) ==
    LET sepIndex == RFind(path, "/")
        dotIndex == RFind(path, ".")
    IN  IF dotIndex > sepIndex
           /\ \E k \in (sepIndex + 1)..(dotIndex - 1) : path[k] # "."
        THEN SubSeq(path, 1, dotIndex - 1)
        ELSE path

TEK0008 == <<"T", "E", "K", "0", "0", "0", "8">>
TEK0012 == <<"T", "E", "K", "0", "0", "1", "2">>
TEK0017 == <<"T", "E", "K", "0", "0", "1", "7">>
DotCSV == <<".", "C", "S", "V">>
DataDir == <<"d", "/">>

\* lines 98-99
VoltageOffsetFor(path) ==
    IF SplitExtRoot(BaseName(path)) \in {TEK0012}
    THEN VOLTAGE_OFFSET - Tek12OffsetDelta
    ELSE VOLTAGE_OFFSET

\* line 102: voltage - voltage_offset, element by element
SubtractOffset(v, offset) == [k \in 1..Len(v) |-> v[k] - offset]

\* the clipping with the threshold itself clipped too
ClipBelowThreshold_Inclusive(v) ==
    [k \in 1..Len(v) |-> IF v[k] <= ClipThreshold THEN 0 ELSE v[k]]

\* line 105: voltage[voltage < -0.1] = 0
ClipBelowThreshold(v) ==
    [k \in 1..Len(v) |-> IF v[k] < ClipThreshold THEN 0 ELSE v[k]]

\* the conversion multiplying by the sensitivity instead of dividing
CurrentFrom_Multiplied(v, sensitivity) ==
    [k \in 1..Len(v) |-> (v[k] * sensitivity) \div MilliPerUnit]

\* lines 111 and 114: sensitivity_v_per_a = sensitivity / 1000 and
\* current = voltage / sensitivity_v_per_a (millivolts give milliamperes)
CurrentFrom(v, sensitivity) ==
    LET sensitivity_v_per_a == Rat(sensitivity, MilliPerUnit)
    IN  [k \in 1..Len(v) |->
            (v[k] * sensitivity_v_per_a.den) \div sensitivity_v_per_a.num]

PlotFiles == { DataDir \o TEK0012 \o DotCSV,
               TEK0012 \o DotCSV,
               TEK0012,
               DataDir \o TEK0017 \o DotCSV,
               TEK0012 \o <<"/">> \o TEK0008 \o DotCSV,
               TEK0012 \o <<".", "A">> \o DotCSV }
Sensitivities == {100, 200, 250}
RawVoltages == {1489, 1490, 1569, 1570, 1620, 1870}
TimeRanges == {None, <<44, 51>>}
OutputNames == {None, TEK0012}

InitPlot ==
    /\ SmoothIdle
    /\ CsvIdle
    /\ ScriptIdle
    /\ filename \in PlotFiles
    /\ sensitivity_mv_per_a \in Sensitivities
    /\ time_range \in TimeRanges
    /\ output_filename \in OutputNames
    /\ voltage \in SeqsUpTo(RawVoltages, MaxSamples)
    /\ voltage_offset = 0
    /\ offset_corrected = <<>>
    /\ voltage_smooth = <<>>
    /\ current = <<>>
    /\ current_smooth = <<>>
    /\ plot_pc = "L98"

ChooseOffset ==
    /\ plot_pc = "L98"
    /\ voltage_offset' = VoltageOffsetFor(filename)
    /\ plot_pc' = "L102"
    /\ UNCHANGED <<plotArgs, voltage, offset_corrected, voltage_smooth, current,
                   current_smooth, smoothVars, csvVars, scriptVars>>

ApplyOffset ==
    /\ plot_pc = "L102"
    /\ voltage' = SubtractOffset(voltage, voltage_offset)
    /\ offset_corrected' = voltage'
    /\ plot_pc' = "L105"
    /\ UNCHANGED <<plotArgs, voltage_offset, voltage_smooth, current,
                   current_smooth, smoothVars, csvVars, scriptVars>>

Clip ==
    /\ plot_pc = "L105"
    /\ voltage' = ClipBelowThreshold(voltage)
    /\ plot_pc' = "L108"
    /\ UNCHANGED <<plotArgs, voltage_offset, offset_corrected, voltage_smooth,
                   current, current_smooth, smoothVars, csvVars, scriptVars>>

SmoothVoltage ==
    /\ plot_pc = "L108"
    /\ voltage_smooth' = smooth_data(voltage, DefaultWindow)
    /\ plot_pc' = "L111"
    /\ UNCHANGED <<plotArgs, voltage, voltage_offset, offset_corrected,
                   current, current_smooth, smoothVars, csvVars, scriptVars>>

ConvertCurrent ==
    /\ plot_pc = "L111"
    /\ current' = CurrentFrom(voltage, sensitivity_mv_per_a)
    /\ plot_pc' = "L117"
    /\ UNCHANGED <<plotArgs, voltage, voltage_offset, offset_corrected,
                   voltage_smooth, current_smooth, smoothVars, csvVars, scriptVars>>

SmoothCurrent ==
    /\ plot_pc = "L117"
    /\ current_smooth' = smooth_data(current, DefaultWindow)
    /\ plot_pc' = "plotting"
    /\ UNCHANGED <<plotArgs, voltage, voltage_offset, offset_corrected,
                   voltage_smooth, current, smoothVars, csvVars, scriptVars>>

NextPlot ==
    \/ ChooseOffset
    \/ ApplyOffset
    \/ Clip
    \/ SmoothVoltage
    \/ ConvertCurrent
    \/ SmoothCurrent

SpecPlot == InitPlot /\ [][NextPlot]_vars

-----------------------------------------------------------------------------
(* Claims about the pipeline (checked under SpecPlot) *)

OffsetChosen == plot_pc \in {"L102", "L105", "L108", "L111", "L117", "plotting"}
Clipped == plot_pc \in {"L108", "L111", "L117", "plotting"}
Converted == plot_pc \in {"L117", "plotting"}

C8_OffsetByBaseName ==
    OffsetChosen =>
        voltage_offset = IF SplitExtRoot(BaseName(filename)) = TEK0012
                         THEN VOLTAGE_OFFSET + Tek12OffsetDelta
                         ELSE VOLTAGE_OFFSET

\* What the code does: for 'TEK0012' the offset is 0.08 V below VOLTAGE_OFFSET.
OffsetLowerForTek12 ==
    OffsetChosen =>
        voltage_offset = IF SplitExtRoot(BaseName(filename)) = TEK0012
                         THEN VOLTAGE_OFFSET - Tek12OffsetDelta
                         ELSE VOLTAGE_OFFSET

\* C9: after the clipping no sample of the offset-corrected voltage is
\* negative, and so no sample of the current is negative.
C9_NoNegativeAfterClip ==
    /\ Clipped => \A k \in 1..Len(voltage) : voltage[k] >= 0
    /\ Converted => \A k \in 1..Len(current) : current[k] >= 0

\* What the code does: after the clipping no sample is below the threshold.
NoSampleBelowThreshold ==
    Clipped => \A k \in 1..Len(voltage) : voltage[k] >= ClipThreshold

-----------------------------------------------------------------------------
(* Claims about smooth_data (checked under SpecSmooth) *)

\* Input index (1-based) that output index i reads at window position j,
\* with an index below the first element replaced by the first and an index
\* above the last replaced by the last.
ClampIndex(k, n) == IF k < 1 THEN 1 ELSE IF k > n THEN n ELSE k

RECURSIVE ClampedWindowSum(_, _, _, _)
\* sum of d[clamp(k)] for k in lo..hi
ClampedWindowSum(d, lo, hi, n) ==
    IF lo > hi THEN 0
    ELSE d[ClampIndex(lo, n)] + ClampedWindowSum(d, lo + 1, hi, n)

SeqMin(d) == CHOOSE x \in {d[k] : k \in 1..Len(d)} :
                \A y \in {d[k] : k \in 1..Len(d)} : x <= y
SeqMax(d) == CHOOSE x \in {d[k] : k \in 1..Len(d)} :
                \A y \in {d[k] : k \in 1..Len(d)} : x >= y

\* C1: smooth_data returns a sequence as long as its input, for every input
\* (the empty one and those shorter than the window included) and every
\* window size >= 1, the default 11 included.
C1_LengthPreserved ==
    smooth_pc = "returned" => Len(smoothed) = Len(data)

\* What the code does keep: the length is preserved for every window >= 2
\* and for every input shorter than the window.
SmoothLengthFromWindow2 ==
    (smooth_pc = "returned" /\ (window_size >= 2 \/ Len(data) < window_size))
        => Len(smoothed) = Len(data)

\* What the code returns for window 1 and a non-empty input: nothing.
SmoothWindow1Empty ==
    (smooth_pc = "returned" /\ window_size = 1 /\ Len(data) >= 1)
        => smoothed = <<>>

\* Output element i is the mean of the w inputs at i - w \div 2 .. i + w \div 2,
\* indices clamped to the input, hence between the input's min and max.
MeanOfClampedWindow(d, w, out) ==
    /\ Len(out) = Len(d)
    /\ \A i \in 1..Len(d) :
          /\ out[i].den > 0
          /\ out[i].num * w
               = ClampedWindowSum(d, i - (w \div 2), i + (w \div 2), Len(d)) * out[i].den
          /\ SeqMin(d) * out[i].den <= out[i].num
          /\ out[i].num <= SeqMax(d) * out[i].den
    /\ (SeqMin(d) = SeqMax(d)
          => \A i \in 1..Len(d) : out[i].num = d[i] * out[i].den)

ReturnedUnchanged(d, out) ==
    /\ Len(out) = Len(d)
    /\ \A i \in 1..Len(d) : out[i].num = d[i] * out[i].den /\ out[i].den > 0

\* C10: for an odd window w and an input of length n >= w, output element i
\* is the mean of the w inputs at the edge-clamped indices i-w//2 .. i+w//2
\* (no zero of the convolution's padding enters, every output lies between
\* the input's min and max, a constant input is returned unchanged); an
\* input of length n < w is returned unchanged.
C10_EdgePaddedMean ==
    (smooth_pc = "returned" /\ window_size % 2 = 1)
        => IF Len(data) >= window_size
           THEN MeanOfClampedWindow(data, window_size, smoothed)
           ELSE ReturnedUnchanged(data, smoothed)

\* The same statement restricted to odd windows >= 3, which the code meets.
SmoothMeanFromWindow3 ==
    (smooth_pc = "returned" /\ window_size % 2 = 1 /\ window_size >= 3)
        => IF Len(data) >= window_size
           THEN MeanOfClampedWindow(data, window_size, smoothed)
           ELSE ReturnedUnchanged(data, smoothed)


-----------------------------------------------------------------------------
(* The script: module-level calls, main, generate_all_plots *)

\* str.lower() on the letters that occur
LowerOf == ("A" :> "a") @@ ("L" :> "l") @@ ("T" :> "t") @@ ("E" :> "e")
           @@ ("K" :> "k") @@ ("C" :> "c") @@ ("S" :> "s") @@ ("V" :> "v")
Lower(s) == [k \in 1..Len(s) |-> IF s[k] \in DOMAIN LowerOf THEN LowerOf[s[k]] ELSE s[k]]

\* str.endswith(suffix)
EndsWith(s, suffix) ==
    /\ Len(s) >= Len(suffix)
    /\ SubSeq(s, Len(s) - Len(suffix) + 1, Len(s)) = suffix

\* code points of the characters that occur in file names
CharCode == ("." :> 46) @@ ("0" :> 48) @@ ("1" :> 49) @@ ("2" :> 50)
            @@ ("7" :> 55) @@ ("8" :> 56) @@ ("9" :> 57) @@ ("C" :> 67)
            @@ ("E" :> 69) @@ ("K" :> 75) @@ ("S" :> 83) @@ ("T" :> 84)
            @@ ("V" :> 86) @@ ("c" :> 99) @@ ("s" :> 115) @@ ("v" :> 118)

RECURSIVE StrLess(_, _)
\* a < b for Python strings: by code point, a proper prefix first
StrLess(a, b) ==
    IF b = <<>> THEN FALSE
    ELSE IF a = <<>> THEN TRUE
    ELSE IF Head(a) # Head(b) THEN CharCode[Head(a)] < CharCode[Head(b)]
    ELSE StrLess(Tail(a), Tail(b))

RECURSIVE InsertSorted(_, _)
InsertSorted(sorted, x) ==
    IF sorted = <<>> THEN <<x>>
    ELSE IF StrLess(x, Head(sorted)) THEN <<x>> \o sorted
    ELSE <<Head(sorted)>> \o InsertSorted(Tail(sorted), x)

RECURSIVE SortNames(_)
\* list.sort()
SortNames(names) ==
    IF names = <<>> THEN <<>>
    ELSE InsertSorted(SortNames(SubSeq(names, 1, Len(names) - 1)), names[Len(names)])

IsCsvName(f) == EndsWith(f, DotCSV)

\* lines 216-217 and 254-255: the '.CSV' names of the listing, sorted
CsvFilesOf(listing) == SortNames(SelectSeq(listing, IsCsvName))

\* int(text) on decimal literals: surrounding whitespace is ignored, then an
\* optional sign and at least one digit; anything else raises ValueError.
ParseInt(text) ==
    LET s      == Strip(text)
        signed == s # <<>> /\ Head(s) \in {"-", "+"}
        neg    == s # <<>> /\ Head(s) = "-"
        body   == IF signed THEN Tail(s) ELSE s
    IN  IF body # <<>> /\ AllDigits(body)
        THEN [ok |-> TRUE, val |-> IF neg THEN -DigitsValue(body) ELSE DigitsValue(body)]
        ELSE [ok |-> FALSE, val |-> 0]

\* list[i] in Python: i in -len..len-1, a negative i counting from the end;
\* any other i raises IndexError.
ListIndex(list, i) ==
    LET n == Len(list)
    IN  IF 0 <= i /\ i < n THEN [ok |-> TRUE, pos |-> i + 1]
        ELSE IF -n <= i /\ i < 0 THEN [ok |-> TRUE, pos |-> n + i + 1]
        ELSE [ok |-> FALSE, pos |-> 0]

InCwd(name) == [dir |-> "cwd", name |-> name]
InScriptDir(name) == [dir |-> "script", name |-> name]

\* "missing", or what reading the file leads to: "good" (the plots are made)
\* or "bad" (no row parses, and the range statistics raise ValueError)
FileStatus(path) ==
    IF path.dir = "cwd" THEN cwd_files[path.name]
    ELSE IF dir_exists /\ path.name \in DOMAIN dir_files THEN dir_files[path.name]
    ELSE "missing"

\* os.path.exists
PathExists(path) == FileStatus(path) # "missing"

\* how a call of plot_voltage_and_current on the path ends
PlotOutcome(path) ==
    CASE FileStatus(path) = "missing" -> "FileNotFoundError"
      [] FileStatus(path) = "bad"     -> "ValueError"
      [] OTHER                         -> "plotted"

Msg(text) == [text |-> text, index |-> -1, file |-> None]
MsgFile(text, i, f) == [text |-> text, index |-> i, file |-> f]
Attempt(site, path, checked) == [site |-> site, path |-> path, checked |-> checked]

\* lines 282-284: the files of the three calls made when the module is loaded
ModuleCalls == <<TEK0012 \o DotCSV, TEK0017 \o DotCSV, TEK0017 \o DotCSV>>

\* the argument of main's command-line branch: line 248
ArgFileName(arg) == IF EndsWith(arg, DotCSV) THEN arg ELSE arg \o DotCSV

ArgAll == <<"a", "l", "l">>
FolderNames == { TEK0008 \o DotCSV, TEK0012 \o DotCSV, TEK0017 \o DotCSV,
                 TEK0012 \o <<".", "c", "s", "v">> }
Arguments == { None, ArgAll, <<"A", "L", "L">>, TEK0012, TEK0012 \o DotCSV,
               <<"T", "E", "K", "0", "0", "9", "9">> }
TypedTexts == { <<"0">>, <<"1">>, <<"2">>, <<"3">>, <<" ", "1", "\n">>,
                <<"-", "1">>, <<"-", "3">>, <<"-", "4">>, <<"x">>, <<>> }

\* the orders in which os.listdir may give the names of S
Orders(S) == { f \in [1..Cardinality(S) -> S] :
                 \A i, j \in 1..Cardinality(S) : i # j => f[i] # f[j] }

InitScript ==
    /\ SmoothIdle
    /\ CsvIdle
    /\ PlotIdle
    /\ argv1 \in Arguments
    /\ cwd_files \in [{ModuleCalls[k] : k \in 1..3} -> {"missing", "good", "bad"}]
    /\ dir_exists \in BOOLEAN
    /\ dir_files \in UNION { [S -> {"good", "bad"}] :
                               S \in IF dir_exists THEN SUBSET FolderNames ELSE {{}} }
    /\ script_pc = "module"
    /\ call_no = 1
    /\ csv_files = <<>>
    /\ loop_i = 1
    /\ typed = NotYet
    /\ main_filename = NoPath
    /\ printed = <<>>
    /\ attempts = <<>>
    /\ plotted = <<>>
    /\ exception = "none"

\* lines 282-284, one call at a time; nothing checks the file first
ModuleLevelCall ==
    /\ script_pc = "module"
    /\ LET path == InCwd(ModuleCalls[call_no])
       IN  /\ attempts' = Append(attempts, Attempt("module", path, FALSE))
           /\ IF PlotOutcome(path) = "plotted"
              THEN /\ plotted' = Append(plotted, path)
                   /\ script_pc' = IF call_no = Len(ModuleCalls) THEN "main" ELSE "module"
                   /\ call_no' = call_no + 1
                   /\ UNCHANGED exception
              ELSE /\ exception' = PlotOutcome(path)
                   /\ script_pc' = "crashed"
                   /\ UNCHANGED <<plotted, call_no>>
    /\ UNCHANGED <<scriptEnv, csv_files, loop_i, typed, main_filename, printed,
                   smoothVars, csvVars, plotVars>>

\* lines 241-245
MainAll ==
    /\ script_pc = "main"
    /\ argv1 # None
    /\ Lower(argv1) = ArgAll
    /\ script_pc' = "gen_L211"
    /\ UNCHANGED <<scriptEnv, call_no, csv_files, loop_i, typed, main_filename,
                   printed, attempts, plotted, exception,
                   smoothVars, csvVars, plotVars>>

\* lines 241-249
MainFileArgument ==
    /\ script_pc = "main"
    /\ argv1 # None
    /\ Lower(argv1) # ArgAll
    /\ main_filename' = InScriptDir(ArgFileName(argv1))
    /\ script_pc' = "L268"
    /\ UNCHANGED <<scriptEnv, call_no, csv_files, loop_i, typed,
                   printed, attempts, plotted, exception,
                   smoothVars, csvVars, plotVars>>

ListingLines(files) ==
    [k \in 1..Len(files) |-> MsgFile("index: file", k - 1, files[k])]

\* lines 250-258: os.listdir raises FileNotFoundError for a missing folder
MainListFiles ==
    /\ script_pc = "main"
    /\ argv1 = None
    /\ IF dir_exists
       THEN \E order \in Orders(DOMAIN dir_files) :
               /\ csv_files' = CsvFilesOf(order)
               /\ printed' = (printed \o <<Msg("Available CSV files:")>>)
                                \o ListingLines(csv_files')
               /\ script_pc' = "L261"
               /\ UNCHANGED exception
       ELSE /\ exception' = "FileNotFoundError"
            /\ script_pc' = "crashed"
            /\ UNCHANGED <<csv_files, printed>>
    /\ UNCHANGED <<scriptEnv, call_no, loop_i, typed, main_filename,
                   attempts, plotted, smoothVars, csvVars, plotVars>>

\* lines 260-265
MainReadChoice ==
    /\ script_pc = "L261"
    /\ \E text \in TypedTexts :
          /\ typed' = text
          /\ LET choice == ParseInt(text)
                 at     == ListIndex(csv_files, choice.val)
             IN  IF choice.ok /\ at.ok
                 THEN /\ main_filename' = InScriptDir(csv_files[at.pos])
                      /\ script_pc' = "L268"
                      /\ UNCHANGED printed
                 ELSE /\ printed' = Append(printed, Msg("Invalid selection. Exiting."))
                      /\ script_pc' = "exit"
                      /\ UNCHANGED main_filename
    /\ UNCHANGED <<scriptEnv, call_no, csv_files, loop_i,
                   attempts, plotted, exception, smoothVars, csvVars, plotVars>>

\* lines 267-270
MainCheckExists ==
    /\ script_pc = "L268"
    /\ IF PathExists(main_filename)
       THEN /\ script_pc' = "L276"
            /\ UNCHANGED printed
       ELSE /\ printed' = Append(printed,
                             MsgFile("Error: File not found.", -1, main_filename.name))
            /\ script_pc' = "exit"
    /\ UNCHANGED <<scriptEnv, call_no, csv_files, loop_i, typed, main_filename,
                   attempts, plotted, exception, smoothVars, csvVars, plotVars>>

\* line 276
MainPlot ==
    /\ script_pc = "L276"
    /\ attempts' = Append(attempts, Attempt("main", main_filename, TRUE))
    /\ IF PlotOutcome(main_filename) = "plotted"
       THEN /\ plotted' = Append(plotted, main_filename)
            /\ script_pc' = "exit"
            /\ UNCHANGED exception
       ELSE /\ exception' = PlotOutcome(main_filename)
            /\ script_pc' = "crashed"
            /\ UNCHANGED plotted
    /\ UNCHANGED <<scriptEnv, call_no, csv_files, loop_i, typed, main_filename,
                   printed, smoothVars, csvVars, plotVars>>

\* lines 209-213
GenCheckFolder ==
    /\ script_pc = "gen_L211"
    /\ IF dir_exists
       THEN /\ script_pc' = "gen_L216"
            /\ UNCHANGED printed
       ELSE /\ printed' = Append(printed, Msg("Error: Oscilloscope-Data folder not found"))
            /\ script_pc' = "exit"
    /\ UNCHANGED <<scriptEnv, call_no, csv_files, loop_i, typed, main_filename,
                   attempts, plotted, exception, smoothVars, csvVars, plotVars>>

\* lines 215-223
GenListFiles ==
    /\ script_pc = "gen_L216"
    /\ \E order \in Orders(DOMAIN dir_files) :
          /\ csv_files' = CsvFilesOf(order)
          /\ IF csv_files' = <<>>
             THEN /\ printed' = Append(printed, Msg("No CSV files found"))
                  /\ script_pc' = "exit"
             ELSE /\ printed' = Append(printed,
                                   MsgFile("Found CSV files", Len(csv_files'), None))
                  /\ script_pc' = "gen_loop"
    /\ loop_i' = 1
    /\ UNCHANGED <<scriptEnv, call_no, typed, main_filename,
                   attempts, plotted, exception, smoothVars, csvVars, plotVars>>

\* the handler ending the loop instead of going on to the next file
AfterFailure_Stop(i, n) == n + 1

\* line 233: continue with the next file
AfterFailure(i, n) == i + 1

\* lines 225-233: one round of the loop
GenProcessFile ==
    /\ script_pc = "gen_loop"
    /\ loop_i <= Len(csv_files)
    /\ LET csv_file == csv_files[loop_i]
           path     == InScriptDir(csv_file)
           start    == Append(printed, MsgFile("Processing", loop_i, csv_file))
       IN  /\ attempts' = Append(attempts, Attempt("batch", path, TRUE))
           /\ IF PlotOutcome(path) = "plotted"
              THEN /\ plotted' = Append(plotted, path)
                   /\ printed' = start
                   /\ loop_i' = loop_i + 1
              ELSE /\ printed' = Append(start,
                                    MsgFile("Error processing", loop_i, csv_file))
                   /\ loop_i' = AfterFailure(loop_i, Len(csv_files))
                   /\ UNCHANGED plotted
    /\ UNCHANGED <<scriptEnv, script_pc, call_no, csv_files, typed, main_filename,
                   exception, smoothVars, csvVars, plotVars>>

\* line 235
GenComplete ==
    /\ script_pc = "gen_loop"
    /\ loop_i > Len(csv_files)
    /\ printed' = Append(printed,
                     MsgFile("Completed processing all files.", Len(csv_files), None))
    /\ script_pc' = "exit"
    /\ UNCHANGED <<scriptEnv, call_no, csv_files, loop_i, typed, main_filename,
                   attempts, plotted, exception, smoothVars, csvVars, plotVars>>

NextScript ==
    \/ ModuleLevelCall
    \/ MainAll
    \/ MainFileArgument
    \/ MainListFiles
    \/ MainReadChoice
    \/ MainCheckExists
    \/ MainPlot
    \/ GenCheckFolder
    \/ GenListFiles
    \/ GenProcessFile
    \/ GenComplete

SpecScript == InitScript /\ [][NextScript]_vars


-----------------------------------------------------------------------------
(* Claims about the script (checked under SpecScript) *)

AttemptsAt(site) == SelectSeq(attempts, LAMBDA a : a.site = site)
Printed(text) == \E k \in 1..Len(printed) : printed[k].text = text
LastPrinted(text) == printed # <<>> /\ printed[Len(printed)].text = text

\* C5: when a file or folder the run needs to read is missing, the run
\* prints an error and exits: it never ends with an uncaught exception for
\* the missing file or folder, and never tries to read a file before having
\* checked that it exists.
C5_MissingFilesReported ==
    /\ exception # "FileNotFoundError"
    /\ \A k \in 1..Len(attempts) : attempts[k].checked

\* What the code does keep: main and generate_all_plots read only files
\* they have checked or listed; the unchecked reads are the module-level ones.
OnlyModuleCallsUnchecked ==
    \A k \in 1..Len(attempts) : ~attempts[k].checked => attempts[k].site = "module"

InteractiveChoiceMade == argv1 = None /\ typed # NotYet

\* C6: in interactive mode, with n files listed under the indices 0..n-1,
\* every input that is not an integer in 0..n-1 (text that is no number, an
\* integer >= n, a negative integer) gives "Invalid selection. Exiting." and
\* no plotted file; a file is plotted only for a printed index, and it is the
\* file printed next to that index.
C6_OnlyPrintedIndicesSelect ==
    InteractiveChoiceMade =>
        LET choice == ParseInt(typed)
            n      == Len(csv_files)
        IN  IF choice.ok /\ 0 <= choice.val /\ choice.val < n
            THEN /\ ~Printed("Invalid selection. Exiting.")
                 /\ main_filename = InScriptDir(csv_files[choice.val + 1])
                 /\ \E k \in 1..Len(printed) :
                       printed[k] = MsgFile("index: file", choice.val, main_filename.name)
                 /\ \A k \in 1..Len(AttemptsAt("main")) :
                       AttemptsAt("main")[k].path = main_filename
            ELSE /\ LastPrinted("Invalid selection. Exiting.")
                 /\ script_pc = "exit"
                 /\ AttemptsAt("main") = <<>>

\* What the code does: an integer in -n..-1 selects a file too, counted from
\* the end of the list; every other input outside 0..n-1 is refused.
NegativeIndexSelectsFromEnd ==
    InteractiveChoiceMade =>
        LET choice == ParseInt(typed)
            n      == Len(csv_files)
        IN  IF choice.ok /\ -n <= choice.val /\ choice.val < n
            THEN main_filename = InScriptDir(
                    csv_files[IF choice.val < 0 THEN n + choice.val + 1
                              ELSE choice.val + 1])
            ELSE LastPrinted("Invalid selection. Exiting.") /\ main_filename = NoPath

BatchMode == argv1 # None /\ Lower(argv1) = ArgAll
CsvNamesInFolder == { f \in DOMAIN dir_files : IsCsvName(f) }
BatchNames == [k \in 1..Len(AttemptsAt("batch")) |-> AttemptsAt("batch")[k].path.name]
ErrorReports == SelectSeq(printed, LAMBDA m : m.text = "Error processing")
FailingBatchNames == SelectSeq(BatchNames, LAMBDA f : dir_files[f] = "bad")

\* at every point of the run: the files tried so far are in strictly
\* ascending name order (so none twice), and each failure so far is reported
BatchInOrder ==
    /\ \A k \in 1..(Len(BatchNames) - 1) : StrLess(BatchNames[k], BatchNames[k + 1])
    /\ Len(ErrorReports) = Len(FailingBatchNames)
    /\ \A k \in 1..Len(ErrorReports) : ErrorReports[k].file = FailingBatchNames[k]

\* at the end of the run: every '.CSV' file of the folder was tried once
BatchTriedAll ==
    /\ { BatchNames[k] : k \in 1..Len(BatchNames) } = CsvNamesInFolder
    /\ Len(BatchNames) = Cardinality(CsvNamesInFolder)

\* C7: for every set of '.CSV' files in the folder and every subset of them
\* that fails, each file is tried exactly once, in ascending name order; a
\* failure is reported and stops no later file; no file is retried; and the
\* run always ends by printing the completion message.
C7_BatchAlwaysCompletes ==
    (BatchMode /\ dir_exists) =>
        /\ BatchInOrder
        /\ script_pc = "crashed" => AttemptsAt("batch") = <<>>
        /\ script_pc = "exit" =>
              /\ BatchTriedAll
              /\ LastPrinted("Completed processing all files.")

\* C7 as amended: the same for every non-empty set of '.CSV' files; with no
\* '.CSV' file in the folder the run ends with "No CSV files found" and
\* prints no completion message.
C7_BatchCompletesWhenFilesExist ==
    (BatchMode /\ dir_exists) =>
        /\ BatchInOrder
        /\ script_pc = "crashed" => AttemptsAt("batch") = <<>>
        /\ script_pc = "exit" =>
              /\ BatchTriedAll
              /\ IF CsvNamesInFolder # {}
                 THEN LastPrinted("Completed processing all files.")
                 ELSE /\ LastPrinted("No CSV files found")
                      /\ ~Printed("Completed processing all files.")

\* A batch run over three files has ended: the first file failed and the
\* last one, tried after the failure, was plotted.
C7_Witness ==
    /\ BatchMode
    /\ script_pc = "exit"
    /\ Len(BatchNames) = 3
    /\ dir_files[BatchNames[1]] = "bad"
    /\ dir_files[BatchNames[3]] = "good"
    /\ InScriptDir(BatchNames[3]) \in { plotted[k] : k \in 1..Len(plotted) }
    /\ LastPrinted("Completed processing all files.")

\* A run whose steps are all taken: the script is sequential and blocks
\* nowhere but at the prompt, so a step that can be taken is taken.
SpecScriptFair == SpecScript /\ WF_vars(NextScript)

\* a batch run that found the folder reaches its end
BatchRunEnds == (BatchMode /\ script_pc = "gen_L216") ~> (script_pc = "exit")

====
